---- MODULE Spec2Model ----
(***************************************************************************)
(* Account-security state machine of login-api-with-ia: the in-memory      *)
(* UserModel store (models/User.js) and the AuthController handlers        *)
(* (src/controllers/authController.js) that read and write it.             *)
(*                                                                         *)
(* Time is an integer clock `now` (one unit stands for one clock reading   *)
(* of new Date()); a JavaScript null timestamp is the epoch, 0, which is   *)
(* what new Date(null) evaluates to, and the clock starts after it.        *)
(***************************************************************************)
EXTENDS Integers, Sequences, FiniteSets, TLC

\* ---------------------------------------------------------------- bounds
MaxTime == 4
MaxUsers == 1
\* store-level runs: failed attempts tracked on one record, clears of the store
MaxTracked == 3
MaxClears == 1
\* runs with several accounts: records the store may hold
MaxAccounts == 2
\* runs with requests in flight: requests admitted
MaxRequests == 2

\* ------------------------------------------------------------- constants
\* lockoutDuration of isAccountLocked, in clock units
LockoutDuration == 2
\* lifetime of a password reset token, in clock units
ResetTTL == 2
\* number of failed attempts that locks an account
LockThreshold == 3
\* this.lastLoginAttempt = null / this.passwordResetExpires = null
NullTime == 0

Null == "null"
Undefined == "undefined"

Emails == {"a@x.io", "b@x.io"}
InvalidEmail == "not-an-email"
Secrets == {"s1", "s2"}
Names == {"Al", "Bo"}
ShortName == "x"
Tokens == {"t1", "t2"}

VARIABLES users, nextId, now, issued, spent, idLog, inflight

vars == <<users, nextId, now, issued, spent, idLog, inflight>>

\* ------------------------------------------------- external capabilities
\* bcrypt.hash(password, saltRounds)
Hash(s) == "$2a$" \o s

\* bcrypt.compare(password, digest)
Compare(s, d) == d = Hash(s)

\* ------------------------------------------------------------ the store
\* class User: the record built by the constructor
User(id, email, password, name, createdAt) ==
  [id |-> id, email |-> email, password |-> password, name |-> name,
   createdAt |-> createdAt, loginAttempts |-> 0, lastLoginAttempt |-> NullTime,
   isLocked |-> FALSE, passwordResetToken |-> Null,
   passwordResetExpires |-> NullTime]

\* users.findIndex(u => u.email === email), 1-based, 0 when there is none
findIndexByEmail(us, email) ==
  IF \E i \in 1..Len(us) : us[i].email = email
  THEN CHOOSE i \in 1..Len(us) :
         /\ us[i].email = email
         /\ \A j \in 1..(i - 1) : us[j].email # email
  ELSE 0

\* users.findIndex(u => u.id === parseInt(id)), 1-based, 0 when there is none
findIndexById(us, id) ==
  IF \E i \in 1..Len(us) : us[i].id = id
  THEN CHOOSE i \in 1..Len(us) :
         /\ us[i].id = id
         /\ \A j \in 1..(i - 1) : us[j].id # id
  ELSE 0

\* UserModel.findByEmail: <<copy>> of the first match, <<>> when none
findByEmail(us, email) ==
  IF findIndexByEmail(us, email) = 0 THEN <<>> ELSE <<us[findIndexByEmail(us, email)]>>

\* UserModel.findById
findById(us, id) ==
  IF findIndexById(us, id) = 0 THEN <<>> ELSE <<us[findIndexById(us, id)]>>

\* mutant: the id is derived from the number of records held
create_IdFromLength(us, nid, email, password, name, t) ==
  [users |-> Append(us, User(Len(us) + 1, email, password, name, t)),
   nextId |-> nid + 1,
   user |-> <<User(Len(us) + 1, email, password, name, t)>>]

\* UserModel.create: pushes a record with the next id
create(us, nid, email, password, name, t) ==
  [users |-> Append(us, User(nid, email, password, name, t)),
   nextId |-> nid + 1,
   user |-> <<User(nid, email, password, name, t)>>]

\* { ...user, ...updateData }: a key present in updateData overwrites the
\* field, also when its value is undefined
Spread(user, updateData) ==
  [f \in DOMAIN user |-> IF f \in DOMAIN updateData THEN updateData[f] ELSE user[f]]

\* UserModel.update
update(us, id, updateData) ==
  IF findIndexById(us, id) = 0
  THEN [users |-> us, user |-> <<>>]
  ELSE [users |-> [us EXCEPT ![findIndexById(us, id)] = Spread(@, updateData)],
        user |-> <<Spread(us[findIndexById(us, id)], updateData)>>]

\* UserModel.delete: users.splice(userIndex, 1)
delete(us, id) ==
  LET i == findIndexById(us, id) IN
  IF i = 0 THEN [users |-> us, ok |-> FALSE]
  ELSE [users |-> [k \in 1..(Len(us) - 1) |-> IF k < i THEN us[k] ELSE us[k + 1]],
        ok |-> TRUE]

\* UserModel.clear
clear == [users |-> <<>>, nextId |-> 1]

\* mutant: a failed attempt sets the counter to 1 instead of incrementing it
Tracked_SetToOne(user, success, t) ==
  IF success
  THEN [user EXCEPT !.loginAttempts = 0, !.isLocked = FALSE,
                    !.lastLoginAttempt = t]
  ELSE [user EXCEPT !.loginAttempts = 1, !.lastLoginAttempt = t]

\* mutant: a successful login records the time but keeps the counter
Tracked_KeepCount(user, success, t) ==
  IF success
  THEN [user EXCEPT !.lastLoginAttempt = t]
  ELSE [user EXCEPT !.loginAttempts = @ + 1, !.lastLoginAttempt = t,
                    !.isLocked = IF user.loginAttempts + 1 >= LockThreshold
                                 THEN TRUE ELSE @]

\* mutant: the account is locked by the second failure
Tracked_LockAtTwo(user, success, t) ==
  IF success
  THEN [user EXCEPT !.loginAttempts = 0, !.isLocked = FALSE,
                    !.lastLoginAttempt = t]
  ELSE [user EXCEPT !.loginAttempts = @ + 1, !.lastLoginAttempt = t,
                    !.isLocked = IF user.loginAttempts + 1 >= 2
                                 THEN TRUE ELSE @]

\* mutant: the third failure is counted and the record is not locked
Tracked_NeverLocks(user, success, t) ==
  IF success
  THEN [user EXCEPT !.loginAttempts = 0, !.isLocked = FALSE,
                    !.lastLoginAttempt = t]
  ELSE [user EXCEPT !.loginAttempts = @ + 1, !.lastLoginAttempt = t]

\* mutant: a successful login withdraws the reset token the record holds
Tracked_ClearToken(user, success, t) ==
  IF success
  THEN [user EXCEPT !.loginAttempts = 0, !.isLocked = FALSE,
                    !.lastLoginAttempt = t,
                    !.passwordResetToken = Null,
                    !.passwordResetExpires = NullTime]
  ELSE [user EXCEPT !.loginAttempts = @ + 1, !.lastLoginAttempt = t,
                    !.isLocked = IF user.loginAttempts + 1 >= LockThreshold
                                 THEN TRUE ELSE @]

\* the success / failure branches of trackLoginAttempt on one record
Tracked(user, success, t) ==
  IF success
  THEN [user EXCEPT !.loginAttempts = 0, !.isLocked = FALSE,
                    !.lastLoginAttempt = t]
  ELSE [user EXCEPT !.loginAttempts = @ + 1, !.lastLoginAttempt = t,
                    !.isLocked = IF user.loginAttempts + 1 >= LockThreshold
                                 THEN TRUE ELSE @]

\* mutant: an attempt against an email without a record is not tracked
trackLoginAttempt_NoPlaceholder(us, nid, email, success, t) ==
  IF findIndexByEmail(us, email) = 0
  THEN [users |-> us, nextId |-> nid]
  ELSE [users |-> [us EXCEPT ![findIndexByEmail(us, email)] = Tracked(@, success, t)],
        nextId |-> nid]

\* UserModel.trackLoginAttempt
trackLoginAttempt(us, nid, email, success, t) ==
  IF findIndexByEmail(us, email) = 0
  THEN IF ~success
       THEN [users |-> Append(us, Tracked(User(nid, email, Null, Null, t),
                                           FALSE, t)),
             nextId |-> nid + 1]
       ELSE [users |-> us, nextId |-> nid]
  ELSE [users |-> [us EXCEPT ![findIndexByEmail(us, email)] = Tracked(@, success, t)],
        nextId |-> nid]

\* mutant: the counter of an unlocked record is cleared whatever time has
\* passed
isAccountLocked_AlwaysClear(us, email, t) ==
  LET i == findIndexByEmail(us, email) IN
  IF i = 0 THEN [locked |-> FALSE, users |-> us]
  ELSE IF us[i].isLocked THEN [locked |-> TRUE, users |-> us]
  ELSE IF us[i].lastLoginAttempt # NullTime
       THEN [locked |-> FALSE,
             users |-> [us EXCEPT ![i].loginAttempts = 0,
                                  ![i].isLocked = FALSE]]
       ELSE [locked |-> FALSE, users |-> us]

\* mutant: a refused attempt on a locked record restarts the lockout
isAccountLocked_Touch(us, email, t) ==
  LET i == findIndexByEmail(us, email) IN
  IF i = 0 THEN [locked |-> FALSE, users |-> us]
  ELSE IF us[i].isLocked
       THEN [locked |-> TRUE, users |-> [us EXCEPT ![i].lastLoginAttempt = t]]
  ELSE IF us[i].lastLoginAttempt # NullTime
       THEN IF us[i].loginAttempts >= LockThreshold
               /\ t - us[i].lastLoginAttempt < LockoutDuration
            THEN [locked |-> TRUE, users |-> us]
            ELSE IF t - us[i].lastLoginAttempt >= LockoutDuration
                 THEN [locked |-> FALSE,
                       users |-> [us EXCEPT ![i].loginAttempts = 0,
                                            ![i].isLocked = FALSE]]
                 ELSE [locked |-> FALSE, users |-> us]
       ELSE [locked |-> FALSE, users |-> us]

\* mutant: the counter is never cleared by the check
isAccountLocked_NoExpiry(us, email, t) ==
  LET i == findIndexByEmail(us, email) IN
  IF i = 0 THEN [locked |-> FALSE, users |-> us]
  ELSE IF us[i].isLocked THEN [locked |-> TRUE, users |-> us]
  ELSE IF us[i].lastLoginAttempt # NullTime
       THEN IF us[i].loginAttempts >= LockThreshold
               /\ t - us[i].lastLoginAttempt < LockoutDuration
            THEN [locked |-> TRUE, users |-> us]
            ELSE [locked |-> FALSE, users |-> us]
       ELSE [locked |-> FALSE, users |-> us]

\* UserModel.isAccountLocked: the answer and the store it leaves
isAccountLocked(us, email, t) ==
  LET i == findIndexByEmail(us, email) IN
  IF i = 0 THEN [locked |-> FALSE, users |-> us]
  ELSE IF us[i].isLocked THEN [locked |-> TRUE, users |-> us]
  ELSE IF us[i].lastLoginAttempt # NullTime
       THEN IF us[i].loginAttempts >= LockThreshold
               /\ t - us[i].lastLoginAttempt < LockoutDuration
            THEN [locked |-> TRUE, users |-> us]
            ELSE IF t - us[i].lastLoginAttempt >= LockoutDuration
                 THEN [locked |-> FALSE,
                       users |-> [us EXCEPT ![i].loginAttempts = 0,
                                            ![i].isLocked = FALSE]]
                 ELSE [locked |-> FALSE, users |-> us]
       ELSE [locked |-> FALSE, users |-> us]

\* mutant: a token that has not expired is kept and handed out again
generatePasswordResetToken_KeepOutstanding(us, email, tok, t) ==
  LET i == findIndexByEmail(us, email) IN
  IF i = 0 THEN [users |-> us, user |-> <<>>]
  ELSE IF us[i].passwordResetToken # Null /\ t <= us[i].passwordResetExpires
  THEN [users |-> us, user |-> <<us[i]>>]
  ELSE [users |-> [us EXCEPT ![i].passwordResetToken = tok,
                             ![i].passwordResetExpires = t + ResetTTL],
        user |-> <<[us[i] EXCEPT !.passwordResetToken = tok,
                                 !.passwordResetExpires = t + ResetTTL]>>]

\* UserModel.generatePasswordResetToken with the random token drawn as tok
generatePasswordResetToken(us, email, tok, t) ==
  LET i == findIndexByEmail(us, email) IN
  IF i = 0 THEN [users |-> us, user |-> <<>>]
  ELSE [users |-> [us EXCEPT ![i].passwordResetToken = tok,
                             ![i].passwordResetExpires = t + ResetTTL],
        user |-> <<[us[i] EXCEPT !.passwordResetToken = tok,
                                 !.passwordResetExpires = t + ResetTTL]>>]

\* mutant: the expiry is not looked at
verifyPasswordResetToken_NoExpiry(us, email, token, t) ==
  LET i == findIndexByEmail(us, email) IN
  IF i = 0 THEN <<>>
  ELSE IF us[i].passwordResetToken # token THEN <<>>
  ELSE <<us[i]>>

\* mutant: the expiry instant itself is already too late
verifyPasswordResetToken_Strict(us, email, token, t) ==
  LET i == findIndexByEmail(us, email) IN
  IF i = 0 THEN <<>>
  ELSE IF us[i].passwordResetToken # token THEN <<>>
  ELSE IF t >= us[i].passwordResetExpires THEN <<>>
  ELSE <<us[i]>>

\* UserModel.verifyPasswordResetToken
verifyPasswordResetToken(us, email, token, t) ==
  LET i == findIndexByEmail(us, email) IN
  IF i = 0 THEN <<>>
  ELSE IF us[i].passwordResetToken # token THEN <<>>
  ELSE IF t > us[i].passwordResetExpires THEN <<>>
  ELSE <<us[i]>>

\* mutant: a token that verifies is withdrawn by the verification
StoreAfterVerify_Consume(us, email, token, t) ==
  IF verifyPasswordResetToken(us, email, token, t) = <<>> THEN us
  ELSE [us EXCEPT ![findIndexByEmail(us, email)].passwordResetToken = Null,
                  ![findIndexByEmail(us, email)].passwordResetExpires = NullTime]

\* UserModel.verifyPasswordResetToken, the store it leaves: it reads users
\* with find, assigns to no record and returns a copy
StoreAfterVerify(us, email, token, t) == us

\* mutant: the reset does not clear the lock
User_resetPassword_KeepLock(us, email, token, newPassword, t) ==
  LET i == findIndexByEmail(us, email) IN
  IF i = 0 THEN [users |-> us, user |-> <<>>]
  ELSE IF us[i].passwordResetToken # token THEN [users |-> us, user |-> <<>>]
  ELSE IF t > us[i].passwordResetExpires THEN [users |-> us, user |-> <<>>]
  ELSE LET r == [us[i] EXCEPT !.password = newPassword,
                              !.passwordResetToken = Null,
                              !.passwordResetExpires = NullTime]
       IN [users |-> [us EXCEPT ![i] = r], user |-> <<r>>]

\* mutant: the reset leaves the token and its expiry in place
User_resetPassword_KeepToken(us, email, token, newPassword, t) ==
  LET i == findIndexByEmail(us, email) IN
  IF i = 0 THEN [users |-> us, user |-> <<>>]
  ELSE IF us[i].passwordResetToken # token THEN [users |-> us, user |-> <<>>]
  ELSE IF t > us[i].passwordResetExpires THEN [users |-> us, user |-> <<>>]
  ELSE LET r == [us[i] EXCEPT !.password = newPassword,
                              !.loginAttempts = 0,
                              !.isLocked = FALSE]
       IN [users |-> [us EXCEPT ![i] = r], user |-> <<r>>]

\* mutant: the reset clears the token and leaves its expiry
User_resetPassword_KeepExpiry(us, email, token, newPassword, t) ==
  LET i == findIndexByEmail(us, email) IN
  IF i = 0 THEN [users |-> us, user |-> <<>>]
  ELSE IF us[i].passwordResetToken # token THEN [users |-> us, user |-> <<>>]
  ELSE IF t > us[i].passwordResetExpires THEN [users |-> us, user |-> <<>>]
  ELSE LET r == [us[i] EXCEPT !.password = newPassword,
                              !.passwordResetToken = Null,
                              !.loginAttempts = 0,
                              !.isLocked = FALSE]
       IN [users |-> [us EXCEPT ![i] = r], user |-> <<r>>]

\* mutant: the reset leaves the old credential in place
User_resetPassword_KeepPassword(us, email, token, newPassword, t) ==
  LET i == findIndexByEmail(us, email) IN
  IF i = 0 THEN [users |-> us, user |-> <<>>]
  ELSE IF us[i].passwordResetToken # token THEN [users |-> us, user |-> <<>>]
  ELSE IF t > us[i].passwordResetExpires THEN [users |-> us, user |-> <<>>]
  ELSE LET r == [us[i] EXCEPT !.passwordResetToken = Null,
                              !.passwordResetExpires = NullTime,
                              !.loginAttempts = 0,
                              !.isLocked = FALSE]
       IN [users |-> [us EXCEPT ![i] = r], user |-> <<r>>]

\* mutant: the token is not looked at again when the reset is written
User_resetPassword_NoRecheck(us, email, token, newPassword, t) ==
  LET i == findIndexByEmail(us, email) IN
  IF i = 0 THEN [users |-> us, user |-> <<>>]
  ELSE LET r == [us[i] EXCEPT !.password = newPassword,
                              !.passwordResetToken = Null,
                              !.passwordResetExpires = NullTime,
                              !.loginAttempts = 0,
                              !.isLocked = FALSE]
       IN [users |-> [us EXCEPT ![i] = r], user |-> <<r>>]

\* UserModel.resetPassword
User_resetPassword(us, email, token, newPassword, t) ==
  LET i == findIndexByEmail(us, email) IN
  IF i = 0 THEN [users |-> us, user |-> <<>>]
  ELSE IF us[i].passwordResetToken # token THEN [users |-> us, user |-> <<>>]
  ELSE IF t > us[i].passwordResetExpires THEN [users |-> us, user |-> <<>>]
  ELSE LET r == [us[i] EXCEPT !.password = newPassword,
                              !.passwordResetToken = Null,
                              !.passwordResetExpires = NullTime,
                              !.loginAttempts = 0,
                              !.isLocked = FALSE]
       IN [users |-> [us EXCEPT ![i] = r], user |-> <<r>>]

\* ------------------------------------------------------------ responses
\* res.status(..).json(..): the fields of a response body the handlers set
NoRes ==
  [status |-> 0, error |-> "-", message |-> "-", remaining |-> -1,
   user |-> <<>>, resetToken |-> "-", jwt |-> 0]

\* mutant: the record is sent as it is stored
WithoutPassword_Whole(user) == user

\* const { password: _, ...userWithoutPassword } = user
WithoutPassword(user) == [f \in DOMAIN user \ {"password"} |-> user[f]]

MsgLocked == "Your account has been locked due to multiple failed login attempts. Please wait 15 minutes or reset your password."
MsgInvalid == "Invalid email or password"
MsgInvalidRemaining == "Invalid email or password. N attempts remaining."
MsgResetGeneric == "If an account with this email exists, a password reset link has been sent."
MsgResetSent == "Password reset link sent to your email"
MsgBadToken == "The password reset token is invalid or has expired"

\* ------------------------------------------------------------- handlers
\* A handler maps the store s = [users, nextId, issued] (issued: the user ids
\* for which a bearer token has been signed), the request and the clock
\* reading t to the store it leaves and the response it sends.

\* the store a handler leaves untouched
Same(s, r) == [users |-> s.users, nextId |-> s.nextId, issued |-> s.issued, res |-> r]

\* mutant: the record is created without looking for the email first
register_NoCheck(s, email, password, name, t) ==
  LET c == create(s.users, s.nextId, email, Hash(password), name, t) IN
  [users |-> c.users, nextId |-> c.nextId,
   issued |-> s.issued \cup {c.user[1].id},
   res |-> [NoRes EXCEPT !.status = 201,
                         !.message = "User registered successfully",
                         !.user = <<WithoutPassword(c.user[1])>>,
                         !.jwt = c.user[1].id]]

\* AuthController.register
register(s, email, password, name, t) ==
  IF findByEmail(s.users, email) # <<>>
  THEN Same(s, [NoRes EXCEPT !.status = 409, !.error = "User already exists"])
  ELSE LET c == create(s.users, s.nextId, email, Hash(password), name, t) IN
       [users |-> c.users, nextId |-> c.nextId,
        issued |-> s.issued \cup {c.user[1].id},
        res |-> [NoRes EXCEPT !.status = 201,
                              !.message = "User registered successfully",
                              !.user = <<WithoutPassword(c.user[1])>>,
                              !.jwt = c.user[1].id]]

\* mutant: the lockout answer is given one failure late
InvalidPasswordResponse_OneLate(updatedUser) ==
  LET remainingAttempts == 3 - updatedUser.loginAttempts IN
  IF remainingAttempts >= 0
  THEN [NoRes EXCEPT !.status = 401, !.error = "Authentication failed",
                     !.message = MsgInvalidRemaining,
                     !.remaining = remainingAttempts]
  ELSE [NoRes EXCEPT !.status = 423, !.error = "Account locked",
                     !.message = MsgLocked]

\* AuthController.login, the branch taken when the password is not valid
InvalidPasswordResponse(updatedUser) ==
  LET remainingAttempts == 3 - updatedUser.loginAttempts IN
  IF remainingAttempts > 0
  THEN [NoRes EXCEPT !.status = 401, !.error = "Authentication failed",
                     !.message = MsgInvalidRemaining,
                     !.remaining = remainingAttempts]
  ELSE [NoRes EXCEPT !.status = 423, !.error = "Account locked",
                     !.message = MsgLocked]

\* AuthController.login
login(s, email, password, t) ==
  LET chk == isAccountLocked(s.users, email, t)
      user == findByEmail(chk.users, email)
  IN
  IF chk.locked
  THEN [users |-> chk.users, nextId |-> s.nextId, issued |-> s.issued,
        res |-> [NoRes EXCEPT !.status = 423, !.error = "Account locked",
                              !.message = MsgLocked]]
  ELSE IF user = <<>>
  THEN LET tr == trackLoginAttempt(chk.users, s.nextId, email, FALSE, t) IN
       [users |-> tr.users, nextId |-> tr.nextId, issued |-> s.issued,
        res |-> [NoRes EXCEPT !.status = 401, !.error = "Authentication failed",
                              !.message = MsgInvalid]]
  ELSE LET isPasswordValid == IF user[1].password # Null
                              THEN Compare(password, user[1].password)
                              ELSE FALSE
           tr == trackLoginAttempt(chk.users, s.nextId, email, isPasswordValid, t)
           updatedUser == findByEmail(tr.users, email)
       IN
       IF ~isPasswordValid
       THEN [users |-> tr.users, nextId |-> tr.nextId, issued |-> s.issued,
             res |-> InvalidPasswordResponse(updatedUser[1])]
       ELSE [users |-> tr.users, nextId |-> tr.nextId,
             issued |-> s.issued \cup {user[1].id},
             res |-> [NoRes EXCEPT !.status = 200,
                                   !.message = "Login successful",
                                   !.user = <<WithoutPassword(user[1])>>,
                                   !.jwt = user[1].id]]

\* AuthController.requestPasswordReset; tok is the value Math.random yields
requestPasswordReset(s, email, tok, t) ==
  IF findByEmail(s.users, email) = <<>>
  THEN Same(s, [NoRes EXCEPT !.status = 200, !.message = MsgResetGeneric])
  ELSE LET g == generatePasswordResetToken(s.users, email, tok, t) IN
       [users |-> g.users, nextId |-> s.nextId, issued |-> s.issued,
        res |-> [NoRes EXCEPT !.status = 200, !.message = MsgResetSent,
                              !.resetToken = g.user[1].passwordResetToken]]

\* mutant: a refused reset withdraws the token the account holds
resetPassword_BurnToken(s, email, token, newPassword, t) ==
  LET user == verifyPasswordResetToken(s.users, email, token, t)
      r == User_resetPassword(s.users, email, token, Hash(newPassword), t)
      i == findIndexByEmail(s.users, email)
  IN
  IF user = <<>>
  THEN [users |-> IF i = 0 THEN s.users
                  ELSE [s.users EXCEPT ![i].passwordResetToken = Null,
                                       ![i].passwordResetExpires = NullTime],
        nextId |-> s.nextId, issued |-> s.issued,
        res |-> [NoRes EXCEPT !.status = 400,
                              !.error = "Invalid or expired token",
                              !.message = MsgBadToken]]
  ELSE [users |-> r.users, nextId |-> s.nextId, issued |-> s.issued,
        res |-> IF r.user = <<>>
                THEN [NoRes EXCEPT !.status = 400,
                                   !.error = "Password reset failed"]
                ELSE [NoRes EXCEPT !.status = 200,
                                   !.message = "Password reset successfully. You can now login with your new password."]]

\* AuthController.resetPassword
resetPassword(s, email, token, newPassword, t) ==
  LET user == verifyPasswordResetToken(s.users, email, token, t)
      r == User_resetPassword(s.users, email, token, Hash(newPassword), t)
  IN
  IF user = <<>>
  THEN Same(s, [NoRes EXCEPT !.status = 400,
                             !.error = "Invalid or expired token",
                             !.message = MsgBadToken])
  ELSE [users |-> r.users, nextId |-> s.nextId, issued |-> s.issued,
        res |-> IF r.user = <<>>
                THEN [NoRes EXCEPT !.status = 400,
                                   !.error = "Password reset failed"]
                ELSE [NoRes EXCEPT !.status = 200,
                                   !.message = "Password reset successfully. You can now login with your new password."]]

\* AuthController.getProfile, for the bearer of a token signed for userId
getProfile(s, userId) ==
  LET user == findById(s.users, userId) IN
  Same(s, IF user = <<>>
          THEN [NoRes EXCEPT !.status = 404, !.error = "User not found"]
          ELSE [NoRes EXCEPT !.status = 200,
                             !.user = <<WithoutPassword(user[1])>>])

\* mutant: the email is not looked up before the update
updateProfile_NoConflictCheck(s, userId, name, email) ==
  LET u == update(s.users, userId, [name |-> name, email |-> email]) IN
  IF email # Undefined /\ email \notin Emails
  THEN Same(s, [NoRes EXCEPT !.status = 400, !.error = "Invalid email format"])
  ELSE IF name # Undefined /\ name \notin Names
  THEN Same(s, [NoRes EXCEPT !.status = 400, !.error = "Invalid name length"])
  ELSE [users |-> u.users, nextId |-> s.nextId, issued |-> s.issued,
        res |-> IF u.user = <<>>
                THEN [NoRes EXCEPT !.status = 404, !.error = "User not found"]
                ELSE [NoRes EXCEPT !.status = 200,
                                   !.message = "Profile updated successfully",
                                   !.user = <<WithoutPassword(u.user[1])>>]]

\* AuthController.updateProfile; emailRegex accepts the members of Emails,
\* the name length check the members of Names
updateProfile(s, userId, name, email) ==
  LET existingUser == findByEmail(s.users, email)
      u == update(s.users, userId, [name |-> name, email |-> email])
  IN
  IF email # Undefined /\ email \notin Emails
  THEN Same(s, [NoRes EXCEPT !.status = 400, !.error = "Invalid email format"])
  ELSE IF name # Undefined /\ name \notin Names
  THEN Same(s, [NoRes EXCEPT !.status = 400, !.error = "Invalid name length"])
  ELSE IF email # Undefined /\ existingUser # <<>> /\ existingUser[1].id # userId
  THEN Same(s, [NoRes EXCEPT !.status = 409, !.error = "Email already exists"])
  ELSE [users |-> u.users, nextId |-> s.nextId, issued |-> s.issued,
        res |-> IF u.user = <<>>
                THEN [NoRes EXCEPT !.status = 404, !.error = "User not found"]
                ELSE [NoRes EXCEPT !.status = 200,
                                   !.message = "Profile updated successfully",
                                   !.user = <<WithoutPassword(u.user[1])>>]]

\* mutant: changing the password also lifts the lock
changePassword_Unlock(s, userId, currentPassword, newPassword) ==
  LET user == findById(s.users, userId)
      u == update(s.users, userId, [password |-> Hash(newPassword),
                                    loginAttempts |-> 0, isLocked |-> FALSE])
  IN
  IF user = <<>>
  THEN Same(s, [NoRes EXCEPT !.status = 404, !.error = "User not found"])
  ELSE IF ~Compare(currentPassword, user[1].password)
  THEN Same(s, [NoRes EXCEPT !.status = 401, !.error = "Invalid current password"])
  ELSE IF Compare(newPassword, user[1].password)
  THEN Same(s, [NoRes EXCEPT !.status = 400, !.error = "Invalid new password"])
  ELSE [users |-> u.users, nextId |-> s.nextId, issued |-> s.issued,
        res |-> IF u.user = <<>>
                THEN [NoRes EXCEPT !.status = 500, !.error = "Update failed"]
                ELSE [NoRes EXCEPT !.status = 200,
                                   !.message = "Password changed successfully"]]

\* mutant: the new secret is not compared with the current one
changePassword_NoSameCheck(s, userId, currentPassword, newPassword) ==
  LET user == findById(s.users, userId)
      u == update(s.users, userId, [password |-> Hash(newPassword)])
  IN
  IF user = <<>>
  THEN Same(s, [NoRes EXCEPT !.status = 404, !.error = "User not found"])
  ELSE IF ~Compare(currentPassword, user[1].password)
  THEN Same(s, [NoRes EXCEPT !.status = 401, !.error = "Invalid current password"])
  ELSE [users |-> u.users, nextId |-> s.nextId, issued |-> s.issued,
        res |-> IF u.user = <<>>
                THEN [NoRes EXCEPT !.status = 500, !.error = "Update failed"]
                ELSE [NoRes EXCEPT !.status = 200,
                                   !.message = "Password changed successfully"]]

\* AuthController.changePassword
changePassword(s, userId, currentPassword, newPassword) ==
  LET user == findById(s.users, userId)
      u == update(s.users, userId, [password |-> Hash(newPassword)])
  IN
  IF user = <<>>
  THEN Same(s, [NoRes EXCEPT !.status = 404, !.error = "User not found"])
  ELSE IF ~Compare(currentPassword, user[1].password)
  THEN Same(s, [NoRes EXCEPT !.status = 401, !.error = "Invalid current password"])
  ELSE IF Compare(newPassword, user[1].password)
  THEN Same(s, [NoRes EXCEPT !.status = 400, !.error = "Invalid new password"])
  ELSE [users |-> u.users, nextId |-> s.nextId, issued |-> s.issued,
        res |-> IF u.user = <<>>
                THEN [NoRes EXCEPT !.status = 500, !.error = "Update failed"]
                ELSE [NoRes EXCEPT !.status = 200,
                                   !.message = "Password changed successfully"]]

\* ---------------------------------------------------------- state machine
\* the store as the handlers see it
Store == [users |-> users, nextId |-> nextId, issued |-> issued]

\* idLog: the ids given to records, in the order they were given, one
\* sequence per period between two clears of the store; the records a step
\* appends to the store are added to the last one
Logged(log, us, after) ==
  [log EXCEPT ![Len(log)] =
     @ \o [k \in 1..(Len(after) - Len(us)) |-> after[Len(us) + k].id]]

\* the request is served: the store becomes the one the handler leaves
Serve(h) ==
  /\ h.nextId <= MaxUsers + 1
  /\ users' = h.users
  /\ nextId' = h.nextId
  /\ issued' = h.issued
  /\ idLog' = Logged(idLog, users, h.users)
  /\ UNCHANGED <<now, inflight>>

\* the id of the record an email addresses, 0 when there is none
IdOf(us, email) ==
  IF findByEmail(us, email) = <<>> THEN 0 ELSE findByEmail(us, email)[1].id

Init ==
  /\ users = <<>>
  /\ nextId = 1
  /\ now = 1
  /\ issued = {}
  /\ spent = {}
  /\ idLog = << <<>> >>
  /\ inflight = <<>>

\* the clock advances between requests
Tick ==
  /\ now < MaxTime
  /\ now' = now + 1
  /\ UNCHANGED <<users, nextId, issued, spent, idLog, inflight>>

Register ==
  \E e \in Emails, p \in Secrets, n \in Names :
    /\ Serve(register(Store, e, p, n, now))
    /\ UNCHANGED spent

Login ==
  \E e \in Emails, p \in Secrets :
    /\ Serve(login(Store, e, p, now))
    /\ UNCHANGED spent

\* spent: the <<id, token>> pairs a reset has consumed and no later request
\* has issued again
RequestPasswordReset ==
  \E e \in Emails, tok \in Tokens :
    /\ Serve(requestPasswordReset(Store, e, tok, now))
    /\ spent' = spent \ {<<IdOf(users, e), tok>>}

ResetPassword ==
  \E e \in Emails, tok \in Tokens \cup {Null}, p \in Secrets :
    LET h == resetPassword(Store, e, tok, p, now) IN
    /\ Serve(h)
    /\ spent' = IF h.res.status = 200
                THEN spent \cup {<<IdOf(users, e), tok>>}
                ELSE spent

GetProfile ==
  \E id \in issued :
    /\ Serve(getProfile(Store, id))
    /\ UNCHANGED spent

UpdateProfile ==
  \E id \in issued, n \in Names \cup {Undefined, ShortName},
     e \in Emails \cup {Undefined, InvalidEmail} :
    /\ Serve(updateProfile(Store, id, n, e))
    /\ UNCHANGED spent

ChangePassword ==
  \E id \in issued, c \in Secrets, p \in Secrets :
    /\ Serve(changePassword(Store, id, c, p))
    /\ UNCHANGED spent

Next ==
  \/ Tick
  \/ Register
  \/ Login
  \/ RequestPasswordReset
  \/ ResetPassword
  \/ GetProfile
  \/ UpdateProfile
  \/ ChangePassword

Spec == Init /\ [][Next]_vars

\* ------------------------------------------------------- the store alone
\* The operations of UserModel called directly, as the tests and an
\* administrative caller do; update receives the patches the handlers build.
Patches ==
  {[name |-> n, email |-> e] : n \in Names \cup {Undefined}, e \in Emails \cup {Undefined}}
  \cup {[password |-> Hash(p)] : p \in Secrets}

StoreCreate ==
  \E e \in Emails, p \in Secrets, n \in Names :
    LET c == create(users, nextId, e, Hash(p), n, now) IN
    /\ nextId <= MaxUsers
    /\ users' = c.users
    /\ nextId' = c.nextId
    /\ idLog' = Logged(idLog, users, c.users)
    /\ UNCHANGED <<now, issued, spent, inflight>>

StoreUpdate ==
  \E i \in 1..Len(users), patch \in Patches :
    /\ users' = update(users, users[i].id, patch).users
    /\ UNCHANGED <<nextId, now, issued, spent, idLog, inflight>>

StoreDelete ==
  \E i \in 1..Len(users) :
    /\ users' = delete(users, users[i].id).users
    /\ UNCHANGED <<nextId, now, issued, spent, idLog, inflight>>

StoreTrackLoginAttempt ==
  \E e \in Emails, success \in BOOLEAN :
    LET tr == trackLoginAttempt(users, nextId, e, success, now) IN
    /\ tr.nextId <= MaxUsers + 1
    /\ \A i \in 1..Len(tr.users) : tr.users[i].loginAttempts <= MaxTracked
    /\ users' = tr.users
    /\ nextId' = tr.nextId
    /\ idLog' = Logged(idLog, users, tr.users)
    /\ UNCHANGED <<now, issued, spent, inflight>>

StoreClear ==
  /\ Len(idLog) <= MaxClears
  /\ users' = clear.users
  /\ nextId' = clear.nextId
  /\ idLog' = Append(idLog, <<>>)
  /\ UNCHANGED <<now, issued, spent, inflight>>

NextStore ==
  \/ Tick
  \/ StoreCreate
  \/ StoreUpdate
  \/ StoreDelete
  \/ StoreTrackLoginAttempt
  \/ StoreClear

SpecStore == Init /\ [][NextStore]_vars

\* ------------------------------------------------------ several accounts
\* The handlers serving requests one after the other within one clock
\* reading, with room for MaxAccounts records.
ServeAccounts(h) ==
  /\ h.nextId <= MaxAccounts + 1
  /\ users' = h.users
  /\ nextId' = h.nextId
  /\ issued' = h.issued
  /\ idLog' = Logged(idLog, users, h.users)
  /\ UNCHANGED <<now, spent, inflight>>

AccountsRegister ==
  \E e \in Emails, p \in Secrets, n \in Names :
    ServeAccounts(register(Store, e, p, n, now))

AccountsLogin ==
  \E e \in Emails, p \in Secrets :
    ServeAccounts(login(Store, e, p, now))

AccountsGetProfile ==
  \E id \in issued :
    ServeAccounts(getProfile(Store, id))

AccountsUpdateProfile ==
  \E id \in issued, n \in Names \cup {Undefined, ShortName},
     e \in Emails \cup {Undefined, InvalidEmail} :
    ServeAccounts(updateProfile(Store, id, n, e))

AccountsChangePassword ==
  \E id \in issued, c \in Secrets, p \in Secrets :
    ServeAccounts(changePassword(Store, id, c, p))

NextAccounts ==
  \/ AccountsRegister
  \/ AccountsLogin
  \/ AccountsGetProfile
  \/ AccountsUpdateProfile
  \/ AccountsChangePassword

SpecAccounts == Init /\ [][NextAccounts]_vars

\* ---------------------------------------------------- requests in flight
\* A handler is an async function: it runs until an await, and what follows
\* the await runs later, after other handlers may have run.  The model method
\* named in an await has run by the time the handler is suspended (its body
\* has no await of its own); bcrypt.hash and bcrypt.compare touch no state.
\* A request in flight carries the handler's local variables; pc names the
\* call it is suspended on.
Request(op, email, password, name, token, userId, before) ==
  [op |-> op, pc |-> "start", email |-> email, password |-> password,
   name |-> name, token |-> token, userId |-> userId,
   isLocked |-> FALSE, user |-> <<>>, isPasswordValid |-> FALSE,
   res |-> NoRes, order |-> 0, judged |-> 0, before |-> before]

\* the store and the request a stretch of a handler leaves
Out(us, nid, iss, r) == [users |-> us, nextId |-> nid, issued |-> iss, req |-> r]

\* the handler calls a method and is suspended on it
Await(r, pc) == [r EXCEPT !.pc = pc]

\* res.status(..).json(..): the handler has answered
Answer(r, res) == [r EXCEPT !.pc = "done", !.res = res]

\* an exception reaches next(error)
ServerError == [NoRes EXCEPT !.status = 500, !.error = "Internal server error"]

\* AuthController.login from the point r.pc to the next await
login_resume(s, r, t) ==
  CASE r.pc = "start" ->
         LET chk == isAccountLocked(s.users, r.email, t) IN
         Out(chk.users, s.nextId, s.issued,
             [Await(r, "isAccountLocked") EXCEPT !.isLocked = chk.locked])
    [] r.pc = "isAccountLocked" ->
         IF r.isLocked
         THEN Out(s.users, s.nextId, s.issued,
                  Answer(r, [NoRes EXCEPT !.status = 423, !.error = "Account locked",
                                          !.message = MsgLocked]))
         ELSE Out(s.users, s.nextId, s.issued,
                  [Await(r, "findByEmail") EXCEPT !.user = findByEmail(s.users, r.email)])
    [] r.pc = "findByEmail" ->
         IF r.user = <<>>
         THEN LET tr == trackLoginAttempt(s.users, s.nextId, r.email, FALSE, t) IN
              Out(tr.users, tr.nextId, s.issued, Await(r, "trackUnknown"))
         ELSE IF r.user[1].password # Null
         THEN Out(s.users, s.nextId, s.issued, Await(r, "compare"))
         ELSE LET tr == trackLoginAttempt(s.users, s.nextId, r.email, FALSE, t) IN
              Out(tr.users, tr.nextId, s.issued, Await(r, "trackLoginAttempt"))
    [] r.pc = "trackUnknown" ->
         Out(s.users, s.nextId, s.issued,
             Answer(r, [NoRes EXCEPT !.status = 401, !.error = "Authentication failed",
                                     !.message = MsgInvalid]))
    [] r.pc = "compare" ->
         LET isPasswordValid == Compare(r.password, r.user[1].password)
             tr == trackLoginAttempt(s.users, s.nextId, r.email, isPasswordValid, t)
         IN Out(tr.users, tr.nextId, s.issued,
                [Await(r, "trackLoginAttempt") EXCEPT !.isPasswordValid = isPasswordValid])
    [] r.pc = "trackLoginAttempt" ->
         IF ~r.isPasswordValid
         THEN Out(s.users, s.nextId, s.issued,
                  [Await(r, "findUpdated") EXCEPT !.user = findByEmail(s.users, r.email)])
         ELSE Out(s.users, s.nextId, s.issued \cup {r.user[1].id},
                  Answer(r, [NoRes EXCEPT !.status = 200,
                                          !.message = "Login successful",
                                          !.user = <<WithoutPassword(r.user[1])>>,
                                          !.jwt = r.user[1].id]))
    [] r.pc = "findUpdated" ->
         Out(s.users, s.nextId, s.issued,
             Answer(r, IF r.user = <<>> THEN ServerError
                       ELSE InvalidPasswordResponse(r.user[1])))

\* AuthController.register from the point r.pc to the next await
register_resume(s, r, t) ==
  CASE r.pc = "start" ->
         Out(s.users, s.nextId, s.issued,
             [Await(r, "findByEmail") EXCEPT !.user = findByEmail(s.users, r.email)])
    [] r.pc = "findByEmail" ->
         IF r.user # <<>>
         THEN Out(s.users, s.nextId, s.issued,
                  Answer(r, [NoRes EXCEPT !.status = 409, !.error = "User already exists"]))
         ELSE Out(s.users, s.nextId, s.issued, Await(r, "hash"))
    [] r.pc = "hash" ->
         LET c == create(s.users, s.nextId, r.email, Hash(r.password), r.name, t) IN
         Out(c.users, c.nextId, s.issued, [Await(r, "create") EXCEPT !.user = c.user])
    [] r.pc = "create" ->
         Out(s.users, s.nextId, s.issued \cup {r.user[1].id},
             Answer(r, [NoRes EXCEPT !.status = 201,
                                     !.message = "User registered successfully",
                                     !.user = <<WithoutPassword(r.user[1])>>,
                                     !.jwt = r.user[1].id]))

\* AuthController.updateProfile from the point r.pc to the next await
updateProfile_resume(s, r, t) ==
  LET u == update(s.users, r.userId, [name |-> r.name, email |-> r.email]) IN
  CASE r.pc = "start" ->
         IF r.email # Undefined /\ r.email \notin Emails
         THEN Out(s.users, s.nextId, s.issued,
                  Answer(r, [NoRes EXCEPT !.status = 400, !.error = "Invalid email format"]))
         ELSE IF r.name # Undefined /\ r.name \notin Names
         THEN Out(s.users, s.nextId, s.issued,
                  Answer(r, [NoRes EXCEPT !.status = 400, !.error = "Invalid name length"]))
         ELSE IF r.email # Undefined
         THEN Out(s.users, s.nextId, s.issued,
                  [Await(r, "findByEmail") EXCEPT !.user = findByEmail(s.users, r.email)])
         ELSE Out(u.users, s.nextId, s.issued, [Await(r, "update") EXCEPT !.user = u.user])
    [] r.pc = "findByEmail" ->
         IF r.user # <<>> /\ r.user[1].id # r.userId
         THEN Out(s.users, s.nextId, s.issued,
                  Answer(r, [NoRes EXCEPT !.status = 409, !.error = "Email already exists"]))
         ELSE Out(u.users, s.nextId, s.issued, [Await(r, "update") EXCEPT !.user = u.user])
    [] r.pc = "update" ->
         Out(s.users, s.nextId, s.issued,
             Answer(r, IF r.user = <<>>
                       THEN [NoRes EXCEPT !.status = 404, !.error = "User not found"]
                       ELSE [NoRes EXCEPT !.status = 200,
                                          !.message = "Profile updated successfully",
                                          !.user = <<WithoutPassword(r.user[1])>>]))

\* AuthController.resetPassword from the point r.pc to the next await
resetPassword_resume(s, r, t) ==
  CASE r.pc = "start" ->
         Out(StoreAfterVerify(s.users, r.email, r.token, t), s.nextId, s.issued,
             [Await(r, "verifyPasswordResetToken") EXCEPT
                !.user = verifyPasswordResetToken(s.users, r.email, r.token, t)])
    [] r.pc = "verifyPasswordResetToken" ->
         IF r.user = <<>>
         THEN Out(s.users, s.nextId, s.issued,
                  Answer(r, [NoRes EXCEPT !.status = 400,
                                          !.error = "Invalid or expired token",
                                          !.message = MsgBadToken]))
         ELSE Out(s.users, s.nextId, s.issued, Await(r, "hash"))
    [] r.pc = "hash" ->
         LET x == User_resetPassword(s.users, r.email, r.token, Hash(r.password), t) IN
         Out(x.users, s.nextId, s.issued, [Await(r, "resetPassword") EXCEPT !.user = x.user])
    [] r.pc = "resetPassword" ->
         Out(s.users, s.nextId, s.issued,
             Answer(r, IF r.user = <<>>
                       THEN [NoRes EXCEPT !.status = 400, !.error = "Password reset failed"]
                       ELSE [NoRes EXCEPT !.status = 200,
                                          !.message = "Password reset successfully. You can now login with your new password."]))

\* the stores the requests find: the empty store, or one account registered
\* and then up to two failed logins and possibly a reset request, served one
\* after the other at the first clock reading
RaceStarts ==
  LET empty == [users |-> <<>>, nextId |-> 1, issued |-> {}]
      one == register(empty, "a@x.io", "s1", "Al", 1)
      failed1 == login(one, "a@x.io", "s2", 1)
      failed2 == login(failed1, "a@x.io", "s2", 1)
      asked(h) == requestPasswordReset(h, "a@x.io", "t1", 1)
      store(h) == [users |-> h.users, nextId |-> h.nextId, issued |-> h.issued]
  IN {empty} \cup {store(h) : h \in {one, failed1, failed2,
                                     asked(one), asked(failed1), asked(failed2)}}

InitRace ==
  \E s \in RaceStarts :
    /\ users = s.users
    /\ nextId = s.nextId
    /\ issued = s.issued
    /\ now = 1
    /\ spent = {}
    /\ idLog = << [k \in 1..Len(s.users) |-> s.users[k].id] >>
    /\ inflight = <<>>

\* the number of requests answered so far
Answered == Cardinality({k \in 1..Len(inflight) : inflight[k].pc = "done"})

\* request i has run a stretch: the store and the request are as it leaves
\* them; order numbers the answers in the order they are sent, and judged is
\* the number of answers sent before a login resumed from bcrypt.compare
Ran(i, out) ==
  /\ out.nextId <= MaxAccounts + 1
  /\ users' = out.users
  /\ nextId' = out.nextId
  /\ issued' = out.issued
  /\ idLog' = Logged(idLog, users, out.users)
  /\ inflight' = [k \in 1..(IF i > Len(inflight) THEN i ELSE Len(inflight)) |->
                    IF k # i THEN inflight[k]
                    ELSE IF out.req.pc = "done"
                         THEN [out.req EXCEPT !.order = Answered + 1]
                         ELSE IF i <= Len(inflight) /\ inflight[i].pc = "compare"
                         THEN [out.req EXCEPT !.judged = Answered]
                         ELSE out.req]
  /\ spent' = IF out.req.op = "resetPassword" /\ out.req.pc = "done"
                 /\ out.req.res.status = 200
              THEN spent \cup {<<IdOf(users, out.req.email), out.req.token>>}
              ELSE spent
  /\ UNCHANGED now

\* what the first request admitted records: the store it arrives at
Before == IF inflight = <<>> THEN <<Store>> ELSE <<>>

LoginArrives ==
  \E e \in Emails, p \in Secrets :
    /\ Len(inflight) < MaxRequests
    /\ Ran(Len(inflight) + 1,
           login_resume(Store, Request("login", e, p, Null, Null, 0, Before), now))

LoginResumes ==
  \E i \in 1..Len(inflight) :
    /\ inflight[i].op = "login" /\ inflight[i].pc # "done"
    /\ Ran(i, login_resume(Store, inflight[i], now))

RegisterArrives ==
  \E e \in Emails, p \in Secrets, n \in Names :
    /\ Len(inflight) < MaxRequests
    /\ Ran(Len(inflight) + 1,
           register_resume(Store, Request("register", e, p, n, Null, 0, Before), now))

RegisterResumes ==
  \E i \in 1..Len(inflight) :
    /\ inflight[i].op = "register" /\ inflight[i].pc # "done"
    /\ Ran(i, register_resume(Store, inflight[i], now))

UpdateProfileArrives ==
  \E id \in issued, n \in Names \cup {Undefined, ShortName},
     e \in Emails \cup {Undefined, InvalidEmail} :
    /\ Len(inflight) < MaxRequests
    /\ Ran(Len(inflight) + 1,
           updateProfile_resume(Store, Request("updateProfile", e, Null, n, Null, id, Before), now))

UpdateProfileResumes ==
  \E i \in 1..Len(inflight) :
    /\ inflight[i].op = "updateProfile" /\ inflight[i].pc # "done"
    /\ Ran(i, updateProfile_resume(Store, inflight[i], now))

ResetPasswordArrives ==
  \E e \in Emails, tok \in Tokens, p \in Secrets :
    /\ Len(inflight) < MaxRequests
    /\ Ran(Len(inflight) + 1,
           resetPassword_resume(Store, Request("resetPassword", e, p, Null, tok, 0, Before), now))

ResetPasswordResumes ==
  \E i \in 1..Len(inflight) :
    /\ inflight[i].op = "resetPassword" /\ inflight[i].pc # "done"
    /\ Ran(i, resetPassword_resume(Store, inflight[i], now))

NextRace ==
  \/ Tick
  \/ LoginArrives
  \/ LoginResumes
  \/ RegisterArrives
  \/ RegisterResumes
  \/ UpdateProfileArrives
  \/ UpdateProfileResumes
  \/ ResetPasswordArrives
  \/ ResetPasswordResumes

SpecRace == InitRace /\ [][NextRace]_vars

\* ================================================================ claims
\* clock readings at which a request made from the current state can arrive
Later == now..MaxTime

\* the email addresses a record holding a credential
Registered(us, email) ==
  /\ findByEmail(us, email) # <<>>
  /\ findByEmail(us, email)[1].password # Null

\* the secret verifies against the credential stored for the email
Correct(us, email, password) ==
  /\ Registered(us, email)
  /\ Compare(password, findByEmail(us, email)[1].password)

\* a registered account is locked by three failures
LockedAccount(us, email) ==
  /\ Registered(us, email)
  /\ findByEmail(us, email)[1].isLocked

\* C1: from a registered account with loginAttempts = 0, three consecutive
\* wrong-password logins, each less than the lockout duration after the one
\* before, are answered 401, 401, 423, and every login after them within the
\* lockout duration is answered 423, with a wrong and with the correct password.
C1_ThreeFailuresLock ==
  \A e \in Emails :
    (Registered(users, e) /\ findByEmail(users, e)[1].loginAttempts = 0) =>
      \A t1 \in Later : \A t2 \in t1..MaxTime : \A t3 \in t2..MaxTime :
        (t2 - t1 < LockoutDuration /\ t3 - t2 < LockoutDuration) =>
          \A p1, p2, p3 \in {p \in Secrets : ~Correct(users, e, p)} :
            LET h1 == login(Store, e, p1, t1)
                h2 == login(h1, e, p2, t2)
                h3 == login(h2, e, p3, t3)
            IN /\ <<h1.res.status, h2.res.status, h3.res.status>> = <<401, 401, 423>>
               /\ \A t4 \in t3..MaxTime : \A p4 \in Secrets :
                    (t4 - t3 < LockoutDuration) =>
                      login(h3, e, p4, t4).res.status = 423

\* C1 witness: an account locked by its third failure, inside the lockout
\* window, whose correct password is answered 423.
C1_Witness ==
  \E e \in Emails, p \in Secrets :
    /\ LockedAccount(users, e)
    /\ findByEmail(users, e)[1].loginAttempts = 3
    /\ now - findByEmail(users, e)[1].lastLoginAttempt < LockoutDuration
    /\ Correct(users, e, p)
    /\ login(Store, e, p, now).res.status = 423

\* C2 (as claimed): once the lockout duration has elapsed since the last
\* attempt on a locked account, a login with the correct password is answered
\* 200 and one with a wrong password 401 with 2 attempts remaining.
C2_UnlockedByTime ==
  \A e \in Emails :
    (/\ LockedAccount(users, e)
     /\ now - findByEmail(users, e)[1].lastLoginAttempt >= LockoutDuration) =>
      \A p \in Secrets :
        LET h == login(Store, e, p, now) IN
        IF Correct(users, e, p)
        THEN h.res.status = 200
        ELSE h.res.status = 401 /\ h.res.remaining = 2

\* C3: a successful password reset leaves the account with isLocked = FALSE
\* and loginAttempts = 0 whatever they were before, and a login with the new
\* password at any later time is answered 200.
C3_ResetUnlocks ==
  \A e \in Emails, tok \in Tokens \cup {Null}, p \in Secrets :
    LET h == resetPassword(Store, e, tok, p, now) IN
    h.res.status = 200 =>
      /\ findByEmail(h.users, e) # <<>>
      /\ findByEmail(h.users, e)[1].isLocked = FALSE
      /\ findByEmail(h.users, e)[1].loginAttempts = 0
      /\ \A t \in Later : login(h, e, p, t).res.status = 200

\* C3 witness: a locked account with three failures whose reset succeeds.
C3_Witness ==
  \E e \in Emails, tok \in Tokens, p \in Secrets :
    /\ LockedAccount(users, e)
    /\ findByEmail(users, e)[1].loginAttempts = 3
    /\ resetPassword(Store, e, tok, p, now).res.status = 200

\* C4: a reset token is usable once: for every <<account, token>> a successful
\* reset has consumed and no later reset request has issued again,
\* verifyPasswordResetToken rejects the token and resetPassword with it is
\* answered 400 Invalid or expired token.
C4_TokenSingleUse ==
  \A pair \in spent : \A e \in Emails :
    IdOf(users, e) = pair[1] =>
      /\ verifyPasswordResetToken(users, e, pair[2], now) = <<>>
      /\ \A p \in Secrets :
           LET h == resetPassword(Store, e, pair[2], p, now) IN
           /\ h.res.status = 400
           /\ h.res.error = "Invalid or expired token"

\* C4 witness: a token consumed by a reset is presented again for its account
\* and is refused.
C4_Witness ==
  \E pair \in spent, e \in Emails, p \in Secrets :
    /\ IdOf(users, e) = pair[1]
    /\ resetPassword(Store, e, pair[2], p, now).res.status = 400

\* C5: a reset presented with the stored token value strictly after
\* passwordResetExpires is answered 400 Invalid or expired token and leaves
\* every record, the credential included, as it was.
C5_ExpiredTokenRejected ==
  \A e \in Emails, p \in Secrets :
    LET u == findByEmail(users, e) IN
    (/\ u # <<>>
     /\ u[1].passwordResetToken # Null
     /\ now > u[1].passwordResetExpires) =>
      LET h == resetPassword(Store, e, u[1].passwordResetToken, p, now) IN
      /\ h.res.status = 400
      /\ h.res.error = "Invalid or expired token"
      /\ h.users = users

\* C5 witness: an account holds a reset token whose expiry has passed.
C5_Witness ==
  \E e \in Emails, p \in Secrets :
    /\ Registered(users, e)
    /\ findByEmail(users, e)[1].passwordResetToken \in Tokens
    /\ now > findByEmail(users, e)[1].passwordResetExpires
    /\ resetPassword(Store, e, findByEmail(users, e)[1].passwordResetToken,
                     p, now).res.status = 400

\* C6: verifyPasswordResetToken returns the account exactly when a record
\* with that email exists, its stored token equals the presented one and
\* now <= passwordResetExpires (the expiry instant included); otherwise, also
\* for an account with no outstanding token, it returns nothing.
C6_VerifyIff ==
  \A e \in Emails, tok \in Tokens \cup {Null} :
    LET v == verifyPasswordResetToken(users, e, tok, now) IN
    /\ (v # <<>>) <=>
         \E i \in 1..Len(users) :
           /\ users[i].email = e
           /\ users[i].passwordResetToken = tok
           /\ now <= users[i].passwordResetExpires
    /\ v # <<>> => v[1].email = e /\ v[1] \in {users[i] : i \in 1..Len(users)}

\* C6 witness: a token verified at the very instant of its expiry.
C6_Witness ==
  \E e \in Emails, tok \in Tokens :
    /\ verifyPasswordResetToken(users, e, tok, now) # <<>>
    /\ now = findByEmail(users, e)[1].passwordResetExpires

\* C7 (as claimed): a reset request for an email with no record is answered
\* with the same message as one for a registered email, and leaves the store
\* as it was.
C7_ResetRequestUniform ==
  \A e1, e2 \in Emails, tok \in Tokens :
    (findByEmail(users, e1) = <<>> /\ Registered(users, e2)) =>
      /\ requestPasswordReset(Store, e1, tok, now).res.message
           = requestPasswordReset(Store, e2, tok, now).res.message
      /\ requestPasswordReset(Store, e1, tok, now).users = users

\* failed attempts recorded so far against an email
PriorAttempts(us, email) ==
  IF findByEmail(us, email) = <<>> THEN 0
  ELSE findByEmail(us, email)[1].loginAttempts

\* the time of the last attempt recorded against an email
PriorAttemptAt(us, email) ==
  IF findByEmail(us, email) = <<>> THEN NullTime
  ELSE findByEmail(us, email)[1].lastLoginAttempt

\* C8 (as claimed): with the same number of prior failed attempts, a failed
\* login against an email that is not registered gets the same status and
\* message, remaining-attempts count included, as a wrong-password login
\* against a registered email.
C8_LoginUniform ==
  \A e1, e2 \in Emails, p \in Secrets :
    (/\ ~Registered(users, e1)
     /\ Registered(users, e2) /\ ~Correct(users, e2, p)
     /\ PriorAttempts(users, e1) = PriorAttempts(users, e2)
     /\ PriorAttemptAt(users, e1) = PriorAttemptAt(users, e2)) =>
      LET r1 == login(Store, e1, p, now).res
          r2 == login(Store, e2, p, now).res
      IN /\ r1.status = r2.status
         /\ r1.message = r2.message
         /\ r1.remaining = r2.remaining

\* C9: a wrong-password login against an existing record that passes the lock
\* check increments loginAttempts to n; for n < 3 it is answered 401 with
\* exactly 3 - n attempts remaining, and when n reaches 3 that same request is
\* answered 423.
C9_RemainingAttempts ==
  \A e \in Emails, p \in Secrets :
    LET chk == isAccountLocked(users, e, now)
        h == login(Store, e, p, now)
    IN
    (findByEmail(users, e) # <<>> /\ ~chk.locked /\ ~Correct(users, e, p)) =>
      LET n == findByEmail(h.users, e)[1].loginAttempts IN
      /\ n = findByEmail(chk.users, e)[1].loginAttempts + 1
      /\ n \in 1..3
      /\ n < 3 => /\ h.res.status = 401
                  /\ h.res.message = MsgInvalidRemaining
                  /\ h.res.remaining = 3 - n
      /\ n = 3 => h.res.status = 423

\* C9 witness: the third failure inside the window, answered 423 by the
\* request that brings the count to 3.
C9_Witness ==
  \E e \in Emails, p \in Secrets :
    /\ Registered(users, e) /\ ~Correct(users, e, p)
    /\ findByEmail(users, e)[1].loginAttempts = 2
    /\ ~findByEmail(users, e)[1].isLocked
    /\ findByEmail(login(Store, e, p, now).users, e)[1].loginAttempts = 3
    /\ login(Store, e, p, now).res.status = 423

\* C10: every login answered 200 leaves the stored account with
\* loginAttempts = 0 and isLocked = FALSE, whatever failures preceded it.
C10_SuccessClearsCounter ==
  \A e \in Emails, p \in Secrets :
    LET h == login(Store, e, p, now) IN
    h.res.status = 200 =>
      /\ findByEmail(h.users, e) # <<>>
      /\ findByEmail(h.users, e)[1].loginAttempts = 0
      /\ findByEmail(h.users, e)[1].isLocked = FALSE

\* C10 witness: a successful login after two failures still inside the window.
C10_Witness ==
  \E e \in Emails, p \in Secrets :
    /\ findByEmail(users, e) # <<>>
    /\ findByEmail(users, e)[1].loginAttempts = 2
    /\ now - findByEmail(users, e)[1].lastLoginAttempt < LockoutDuration
    /\ login(Store, e, p, now).res.status = 200

\* every request that can be served from the current state, with the store
\* and the response its handler produces
Steps ==
  {[op |-> "register", email |-> e, h |-> register(Store, e, p, n, now)] :
     e \in Emails, p \in Secrets, n \in Names}
  \cup {[op |-> "login", email |-> e, h |-> login(Store, e, p, now)] :
     e \in Emails, p \in Secrets}
  \cup {[op |-> "forgot", email |-> e, h |-> requestPasswordReset(Store, e, tok, now)] :
     e \in Emails, tok \in Tokens}
  \cup {[op |-> "reset", email |-> e, h |-> resetPassword(Store, e, tok, p, now)] :
     e \in Emails, tok \in Tokens \cup {Null}, p \in Secrets}
  \cup {[op |-> "getProfile", email |-> "-", h |-> getProfile(Store, id)] :
     id \in issued}
  \cup {[op |-> "updateProfile", email |-> "-", h |-> updateProfile(Store, id, n, e)] :
     id \in issued, n \in Names \cup {Undefined, ShortName},
     e \in Emails \cup {Undefined, InvalidEmail}}
  \cup {[op |-> "changePassword", email |-> "-", h |-> changePassword(Store, id, c, p)] :
     id \in issued, c \in Secrets, p \in Secrets}

\* the request is a login or a reset completion for record i that succeeds
SucceedsOn(st, i) ==
  /\ st.op \in {"login", "reset"}
  /\ st.email = users[i].email
  /\ st.h.res.status = 200

\* record i is not locked and its last attempt is at least the lockout
\* duration old
WindowElapsed(i) ==
  /\ ~users[i].isLocked
  /\ users[i].lastLoginAttempt # NullTime
  /\ now - users[i].lastLoginAttempt >= LockoutDuration

\* C11 (as claimed): the only requests that lower loginAttempts of a record
\* are a successful login and a successful reset completion; in particular a
\* failed login never leaves it lower than it was.
C11_OnlySuccessLowers ==
  \A st \in Steps : \A i \in 1..Len(users) :
    st.h.users[i].loginAttempts < users[i].loginAttempts => SucceedsOn(st, i)

\* C11 (amended): loginAttempts of a record is lowered only by a successful
\* login, a successful reset completion, or a login for its email that arrives
\* at least the lockout duration after lastLoginAttempt while the record is
\* not locked; a failed login inside that window leaves it one higher.
C11_LoweredOnlyBySuccessOrExpiry ==
  \A st \in Steps : \A i \in 1..Len(users) :
    /\ st.h.users[i].loginAttempts < users[i].loginAttempts =>
         \/ SucceedsOn(st, i)
         \/ st.op = "login" /\ st.email = users[i].email /\ WindowElapsed(i)
    /\ (/\ st.op = "login" /\ st.email = users[i].email
        /\ st.h.res.status = 401 /\ ~WindowElapsed(i)) =>
         st.h.users[i].loginAttempts = users[i].loginAttempts + 1

\* C11 witness: two failures are on record, the window has elapsed, and a
\* further failed login leaves the counter at 1.
C11_Witness ==
  \E st \in Steps : \E i \in 1..Len(users) :
    /\ st.op = "login" /\ st.email = users[i].email
    /\ users[i].loginAttempts = 2
    /\ WindowElapsed(i)
    /\ st.h.res.status = 401
    /\ st.h.users[i].loginAttempts = 1

\* C12: a login against a locked account whose lockout has not expired is
\* answered 423 and leaves the store exactly as it was: no attempt is counted,
\* lastLoginAttempt, the lock, the credential and the reset token keep their
\* values.
C12_LockedLoginNoEffect ==
  \A e \in Emails, p \in Secrets :
    (/\ findByEmail(users, e) # <<>>
     /\ findByEmail(users, e)[1].isLocked
     /\ now - findByEmail(users, e)[1].lastLoginAttempt < LockoutDuration) =>
      LET h == login(Store, e, p, now) IN
      /\ h.res.status = 423
      /\ h.users = users
      /\ h.nextId = nextId
      /\ h.issued = issued

\* C12 witness: the correct password is presented to an account locked one
\* clock reading ago, and nothing is recorded.
C12_Witness ==
  \E e \in Emails, p \in Secrets :
    /\ LockedAccount(users, e)
    /\ Correct(users, e, p)
    /\ now - findByEmail(users, e)[1].lastLoginAttempt = 1
    /\ login(Store, e, p, now).res.status = 423
    /\ login(Store, e, p, now).users = users

\* C13: in every reachable state, a record with isLocked = TRUE has
\* loginAttempts >= 3.
C13_LockedImpliesThreshold ==
  \A i \in 1..Len(users) : users[i].isLocked => users[i].loginAttempts >= 3

\* C13 witness: a locked record exists.
C13_Witness ==
  \E i \in 1..Len(users) : users[i].isLocked /\ users[i].loginAttempts = 3

\* C14: in every reachable state, passwordResetToken and passwordResetExpires
\* of a record are both set or both null.
C14_TokenAndExpiryTogether ==
  \A i \in 1..Len(users) :
    (users[i].passwordResetToken = Null) <=> (users[i].passwordResetExpires = NullTime)

\* C14 witness: after a reset has consumed a token, a new one has just been
\* issued to a record together with its expiry.
C14_Witness ==
  \E i \in 1..Len(users) :
    /\ users[i].passwordResetToken \in Tokens
    /\ users[i].passwordResetExpires = now + ResetTTL
    /\ spent # {}

\* C16: a registration for an email that a record already holds is answered
\* 409 and adds nothing: the store, the existing record included, and nextId
\* are as they were, and no token is issued.
C16_DuplicateEmailConflict ==
  \A e \in Emails, p \in Secrets, n \in Names :
    findByEmail(users, e) # <<>> =>
      LET h == register(Store, e, p, n, now) IN
      /\ h.res.status = 409
      /\ h.users = users
      /\ h.nextId = nextId
      /\ h.issued = issued

\* C16 witness: a registered email is registered again with another secret
\* and another name, and is refused.
C16_Witness ==
  \E e \in Emails, p \in Secrets, n \in Names :
    /\ Registered(users, e)
    /\ ~Correct(users, e, p)
    /\ findByEmail(users, e)[1].name # n
    /\ register(Store, e, p, n, now).res.status = 409

\* the records of a store that carry the email
RecordsOf(us, email) == {i \in 1..Len(us) : us[i].email = email}

\* C17: failed logins against an email that has no record are tracked on one
\* placeholder: the first appends a single record with a null credential and
\* loginAttempts = 1, the following ones increment that record without adding
\* another, and the third within the lockout window is answered 423.
C17_PlaceholderTracksFailures ==
  \A e \in Emails :
    findByEmail(users, e) = <<>> =>
      LET k == Len(users) + 1
          \* the store holds k records, the k-th the only one with the email
          OnePlaceholder(h, n) ==
            /\ Len(h.users) = k
            /\ RecordsOf(h.users, e) = {k}
            /\ h.users[k].password = Null
            /\ h.users[k].loginAttempts = n
      IN
      \A t1 \in Later, p1 \in Secrets :
        LET h1 == login(Store, e, p1, t1) IN
        /\ OnePlaceholder(h1, 1)
        /\ h1.res.status = 401
        /\ \A t2 \in t1..MaxTime, p2 \in Secrets :
             t2 - t1 < LockoutDuration =>
               LET h2 == login(h1, e, p2, t2) IN
               /\ OnePlaceholder(h2, 2)
               /\ h2.res.status = 401
               /\ \A t3 \in t2..MaxTime, p3 \in Secrets :
                    t3 - t2 < LockoutDuration =>
                      LET h3 == login(h2, e, p3, t3) IN
                      /\ OnePlaceholder(h3, 3)
                      /\ h3.res.status = 423

\* C17 witness: a placeholder with two failures inside the window receives
\* the third and is locked out.
C17_Witness ==
  \E e \in Emails, p \in Secrets :
    /\ findByEmail(users, e) # <<>>
    /\ findByEmail(users, e)[1].password = Null
    /\ findByEmail(users, e)[1].loginAttempts = 2
    /\ now - findByEmail(users, e)[1].lastLoginAttempt < LockoutDuration
    /\ login(Store, e, p, now).res.status = 423
    /\ Len(login(Store, e, p, now).users) = Len(users)

\* C18: a reset completion that is refused (no record for the email, token
\* mismatch or expired token) leaves every record as it was.
C18_FailedResetNoEffect ==
  \A e \in Emails, tok \in Tokens \cup {Null}, p \in Secrets :
    LET h == resetPassword(Store, e, tok, p, now) IN
    h.res.status # 200 =>
      /\ h.res.status = 400
      /\ h.users = users
      /\ h.nextId = nextId

\* C18 witness: an account holds a token that is still valid and a reset
\* presenting another token is refused.
C18_Witness ==
  \E e \in Emails, tok \in Tokens, p \in Secrets :
    /\ Registered(users, e)
    /\ findByEmail(users, e)[1].passwordResetToken \in Tokens \ {tok}
    /\ now <= findByEmail(users, e)[1].passwordResetExpires
    /\ resetPassword(Store, e, tok, p, now).res.status = 400

\* C19: after a successful reset with a new secret the stored credential is
\* the digest of that secret and the token and its expiry are cleared; a
\* login with the new secret is then answered 200 and a login with the
\* previous, different secret 401.
C19_ResetReplacesCredential ==
  \A e \in Emails, tok \in Tokens \cup {Null}, new \in Secrets :
    LET h == resetPassword(Store, e, tok, new, now) IN
    h.res.status = 200 =>
      /\ findByEmail(h.users, e)[1].password = Hash(new)
      /\ findByEmail(h.users, e)[1].passwordResetToken = Null
      /\ findByEmail(h.users, e)[1].passwordResetExpires = NullTime
      /\ \A t \in Later :
           /\ login(h, e, new, t).res.status = 200
           /\ \A old \in Secrets \ {new} :
                Correct(users, e, old) => login(h, e, old, t).res.status = 401

\* C19 witness: an account whose secret is s1 completes a reset to s2.
C19_Witness ==
  \E e \in Emails, tok \in Tokens :
    /\ Correct(users, e, "s1")
    /\ resetPassword(Store, e, tok, "s2", now).res.status = 200

\* C20 (as claimed): a successful profile update writes the fields the request
\* provides and keeps the previous value of a field it does not provide; the
\* other fields of the record are unchanged.
C20_UpdateOnlyProvided ==
  \A id \in issued, n \in Names \cup {Undefined}, e \in Emails \cup {Undefined} :
    LET h == updateProfile(Store, id, n, e)
        i == findIndexById(users, id)
    IN
    h.res.status = 200 =>
      /\ h.users[i].name = IF n = Undefined THEN users[i].name ELSE n
      /\ h.users[i].email = IF e = Undefined THEN users[i].email ELSE e
      /\ \A f \in DOMAIN users[i] \ {"name", "email"} : h.users[i][f] = users[i][f]

\* a sequence of ids in which every id is greater than all those before it
Increasing(ids) == \A j, k \in 1..Len(ids) : j < k => ids[j] < ids[k]

\* the ids ever given, over all the periods between clears
AllIds == LET RECURSIVE Cat(_)
              Cat(n) == IF n = 0 THEN <<>> ELSE Cat(n - 1) \o idLog[n]
          IN Cat(Len(idLog))

\* against the ids already given (given): the ids given are increasing, the
\* records held have distinct ids among them, a record created from this
\* state by create or as a placeholder of trackLoginAttempt gets an id above
\* all of them, and update, trackLoginAttempt and delete change no id of a
\* record they leave in the store
IdsNeverReused(given) ==
  /\ Increasing(given)
  /\ \A i \in 1..Len(users) : \E k \in 1..Len(given) : given[k] = users[i].id
  /\ \A i, j \in 1..Len(users) : users[i].id = users[j].id => i = j
  /\ \A e \in Emails, p \in Secrets, n \in Names : \A k \in 1..Len(given) :
       create(users, nextId, e, Hash(p), n, now).user[1].id > given[k]
  /\ \A e \in Emails : \A k \in 1..Len(given) :
       LET tr == trackLoginAttempt(users, nextId, e, FALSE, now) IN
       /\ Len(tr.users) > Len(users) => tr.users[Len(tr.users)].id > given[k]
       /\ \A i \in 1..Len(users) : tr.users[i].id = users[i].id
  /\ \A i, j \in 1..Len(users), patch \in Patches :
       update(users, users[i].id, patch).users[j].id = users[j].id
  /\ \A i \in 1..Len(users) :
       {r.id : r \in {delete(users, users[i].id).users[k] : k \in 1..(Len(users) - 1)}}
         = {users[k].id : k \in 1..Len(users)} \ {users[i].id}

C22_ChangeCredentialGuarded ==
  \A id \in issued, c \in Secrets, p \in Secrets :
    LET h == changePassword(Store, id, c, p)
        i == findIndexById(users, id)
    IN
    i # 0 =>
      /\ ~Compare(c, users[i].password) =>
           h.res.status = 401 /\ h.users = users
      /\ (Compare(c, users[i].password) /\ p = c) =>
           h.res.status = 400 /\ h.users = users
      /\ (Compare(c, users[i].password) /\ p # c) =>
           /\ h.res.status = 200
           /\ h.users[i].password = Hash(p)
           /\ \A f \in DOMAIN users[i] \ {"password"} : h.users[i][f] = users[i][f]
      /\ h.users[i].password # users[i].password =>
           Compare(c, users[i].password) /\ p # c

\* C22 witness: the current secret is supplied as the new one and refused.
C22_Witness ==
  \E id \in issued, c \in Secrets :
    /\ findById(users, id) # <<>>
    /\ Compare(c, findById(users, id)[1].password)
    /\ changePassword(Store, id, c, c).res.status = 400

\* C23 (as claimed): after a successful changePassword on an account that is
\* not locked, at every later time a login with the new secret authenticates
\* the account and no login with the old secret does.
C23_ChangedCredentialLogsIn ==
  \A id \in issued, c \in Secrets, p \in Secrets :
    LET h == changePassword(Store, id, c, p)
        i == findIndexById(users, id)
    IN
    (h.res.status = 200 /\ ~users[i].isLocked) =>
      \A t \in Later :
        /\ \E e \in Emails :
             /\ login(h, e, p, t).res.status = 200
             /\ login(h, e, p, t).res.jwt = id
        /\ \A e \in Emails :
             ~ /\ login(h, e, c, t).res.status = 200
               /\ login(h, e, c, t).res.jwt = id

\* C24: the account view in a response of register, login, getProfile or
\* updateProfile never has the password field.
C24_NoDigestInResponse ==
  \A st \in Steps :
    (st.op \in {"register", "login", "getProfile", "updateProfile"}
       /\ st.h.res.user # <<>>) =>
      "password" \notin DOMAIN st.h.res.user[1]

\* C24 witness: a registered account whose login and profile read both
\* succeed and carry the account view.
C24_Witness ==
  \E s1 \in Steps, s2 \in Steps :
    /\ s1.op = "login" /\ s1.h.res.status = 200
    /\ s1.h.res.user # <<>> /\ s1.h.res.user[1].email = s1.email
    /\ s2.op = "getProfile" /\ s2.h.res.status = 200
    /\ s2.h.res.user # <<>> /\ s2.h.res.user[1].id = s1.h.res.user[1].id

\* C29 (as claimed): a reset request for an email that has a record stores
\* the token with passwordResetExpires = now + ResetTTL and returns that
\* token; the token verifies at every time from then up to and including the
\* expiry, and as long as no reset completes and no other token is requested
\* a token a record holds verifies for that account, under an email address a
\* request can carry, at every time up to its expiry.
C29_TokenValidUntilExpiry ==
  /\ \A e \in Emails, tok \in Tokens :
       findByEmail(users, e) # <<>> =>
         LET h == requestPasswordReset(Store, e, tok, now)
             r == findByEmail(h.users, e)[1]
         IN
         /\ r.passwordResetToken = tok
         /\ r.passwordResetExpires = now + ResetTTL
         /\ h.res.resetToken = tok
         /\ \A t \in now..(now + ResetTTL) :
              verifyPasswordResetToken(h.users, e, tok, t) = <<r>>
         /\ verifyPasswordResetToken(h.users, e, tok, now + ResetTTL + 1) = <<>>
  /\ \A i \in 1..Len(users) :
       users[i].passwordResetToken # Null =>
         /\ users[i].passwordResetExpires - ResetTTL \in 1..now
         /\ \E e \in Emails :
              \A t \in now..users[i].passwordResetExpires :
                verifyPasswordResetToken(users, e, users[i].passwordResetToken, t)
                  = <<users[i]>>

\* C30: verifyPasswordResetToken leaves every field of every record as it
\* was, whether it returns the account or nothing; a token that verifies still
\* verifies after being verified twice, and then completes a reset.
C30_VerifyNoSideEffect ==
  \A e \in Emails, tok \in Tokens \cup {Null} :
    LET once == StoreAfterVerify(users, e, tok, now)
        twice == StoreAfterVerify(once, e, tok, now)
    IN
    /\ once = users
    /\ twice = users
    /\ verifyPasswordResetToken(twice, e, tok, now)
         = verifyPasswordResetToken(users, e, tok, now)
    /\ verifyPasswordResetToken(users, e, tok, now) # <<>> =>
         \A p \in Secrets :
           resetPassword([Store EXCEPT !.users = twice], e, tok, p, now).res.status = 200

\* C30 witness: a record holds a token that verifies now.
C30_Witness ==
  \E e \in Emails, tok \in Tokens :
    /\ verifyPasswordResetToken(users, e, tok, now) # <<>>
    /\ StoreAfterVerify(users, e, tok, now) = users
    /\ findByEmail(users, e)[1].passwordResetToken = tok

\* C21: updateProfile with an email held by a record with another id is
\* answered 409 and leaves the store as it was; an update that gives the
\* caller's own current email is accepted and keeps that email.
C21_EmailConflictOnUpdate ==
  \A id \in issued, n \in Names \cup {Undefined}, e \in Emails :
    LET existingUser == findByEmail(users, e)
        i == findIndexById(users, id)
        h == updateProfile(Store, id, n, e)
    IN
    /\ (\E k \in 1..Len(users) : users[k].email = e /\ users[k].id # id) =>
         /\ h.res.status = 409
         /\ h.users = users
         /\ h.nextId = nextId
         /\ h.issued = issued
    /\ (i # 0 /\ users[i].email = e) =>
         /\ h.res.status = 200
         /\ h.users[i].email = e
         /\ \A k \in 1..Len(users) : k # i => h.users[k] = users[k]

\* C21 witness: two registered accounts; the second asks for the email of the
\* first and is refused, and asks for its own and is accepted.
C21_Witness ==
  \E id \in issued, n \in Names :
    LET i == findIndexById(users, id) IN
    /\ i # 0
    /\ \E k \in 1..Len(users) :
         /\ k # i
         /\ users[k].password # Null
         /\ users[k].email \in Emails \ {users[i].email}
         /\ updateProfile(Store, id, n, users[k].email).res.status = 409
    /\ users[i].email \in Emails
    /\ updateProfile(Store, id, n, users[i].email).res.status = 200

\* C25 (as claimed): when the requests in flight were logins against one
\* registered account and all have been answered, the status and remaining-attempts count
\* each returned, and loginAttempts / isLocked of the record, are those of the
\* same logins served one after the other, in some order, from the store the
\* first of them arrived at.
C25_LoginsSerializable ==
  LET n == Len(inflight) IN
  (/\ n >= 2
   /\ Registered(inflight[1].before[1].users, inflight[1].email)
   /\ \A k \in 1..n : /\ inflight[k].op = "login"
                      /\ inflight[k].pc = "done"
                      /\ inflight[k].email = inflight[1].email) =>
    LET e == inflight[1].email
        s0 == inflight[1].before[1]
        Orders == {f \in [1..n -> 1..n] : \A j, k \in 1..n : f[j] = f[k] => j = k}
        Times == {ts \in [1..n -> 1..now] : \A j, k \in 1..n : j <= k => ts[j] <= ts[k]}
        Serial(f, ts) ==
          LET RECURSIVE After(_)
              After(k) == IF k = 0 THEN Same(s0, NoRes)
                          ELSE login(After(k - 1), e, inflight[f[k]].password, ts[k])
          IN [k \in 1..n |-> After(k)]
    IN \E f \in Orders, ts \in Times :
         LET run == Serial(f, ts) IN
         /\ \A k \in 1..n :
              /\ run[k].res.status = inflight[f[k]].res.status
              /\ run[k].res.remaining = inflight[f[k]].res.remaining
         /\ findByEmail(run[n].users, e)[1].loginAttempts
              = findByEmail(users, e)[1].loginAttempts
         /\ findByEmail(run[n].users, e)[1].isLocked
              = findByEmail(users, e)[1].isLocked

\* C26 (as claimed): with logins in flight, loginAttempts of every record
\* stays within 0..3, and a login in flight against a record that is locked
\* neither changes its counter, nor unlocks it, nor is answered 200 by the
\* stretch it runs next.
C26_CounterWithinThreshold ==
  /\ \A i \in 1..Len(users) : users[i].loginAttempts \in 0..LockThreshold
  /\ \A k \in 1..Len(inflight) :
       LET r == inflight[k]
           i == findIndexByEmail(users, r.email)
           out == login_resume(Store, r, now)
       IN
       (r.op = "login" /\ r.pc # "done" /\ i # 0 /\ users[i].isLocked) =>
         /\ out.users[i].loginAttempts = users[i].loginAttempts
         /\ out.users[i].isLocked
         /\ ~(out.req.pc = "done" /\ out.req.res.status = 200)

\* C27 (as claimed): with register, updateProfile and login requests in
\* flight, no two records of the store carry the same email address.
C27_EmailUnique ==
  \A i, j \in 1..Len(users) :
    (users[i].email \in Emails /\ users[i].email = users[j].email) => i = j

\* C28 (as claimed): a login that has its secret compared after a reset
\* completion for the same account was answered 200 is not answered 200 for a
\* secret other than the one the reset set, also when it read the record
\* before the reset.
C28_NoLoginOnReplacedCredential ==
  \A q, r \in 1..Len(inflight) :
    (/\ inflight[q].op = "resetPassword" /\ inflight[q].pc = "done"
     /\ inflight[q].res.status = 200
     /\ inflight[r].op = "login" /\ inflight[r].pc = "done"
     /\ inflight[r].email = inflight[q].email
     /\ inflight[r].judged >= inflight[q].order
     /\ inflight[r].res.status = 200) =>
      inflight[r].password = inflight[q].password

\* C31 (as claimed): a lock check made at least the lockout duration after
\* lastLoginAttempt leaves the record with loginAttempts = 0 and
\* isLocked = FALSE and answers not locked, for a locked record as well as for
\* an unlocked one.
C31_CheckClearsExpiredLockout ==
  \A e \in Emails :
    LET i == findIndexByEmail(users, e)
        chk == isAccountLocked(users, e, now)
    IN
    (/\ i # 0
     /\ users[i].lastLoginAttempt # NullTime
     /\ now - users[i].lastLoginAttempt >= LockoutDuration) =>
      /\ ~chk.locked
      /\ chk.users[i].loginAttempts = 0
      /\ chk.users[i].isLocked = FALSE

\* C32: with requests served one at a time, in every reachable state a record
\* has isLocked = TRUE exactly when loginAttempts >= 3, and loginAttempts
\* never exceeds 3.
C32_LockAgreesWithCounter ==
  \A i \in 1..Len(users) :
    /\ users[i].isLocked <=> users[i].loginAttempts >= LockThreshold
    /\ users[i].loginAttempts \in 0..LockThreshold

\* C32 witness: a locked record at the threshold, the lockout duration past,
\* on which one more wrong-password login leaves the counter at 3.
C32_Witness ==
  \E e \in Emails, p \in Secrets :
    LET i == findIndexByEmail(users, e) IN
    /\ i # 0
    /\ users[i].isLocked /\ users[i].loginAttempts = LockThreshold
    /\ now - users[i].lastLoginAttempt >= LockoutDuration
    /\ ~Correct(users, e, p)
    /\ login(Store, e, p, now).users[i].loginAttempts = LockThreshold

\* C33: when an unlocked record has loginAttempts 1 or 2 and a login arrives
\* at least the lockout duration after lastLoginAttempt, the counter is
\* cleared before the secret is judged: a wrong password is answered 401 with
\* 2 attempts remaining and leaves loginAttempts = 1 and the record unlocked,
\* and the correct password is answered 200.
C33_StaleFailuresExpire ==
  \A e \in Emails, p \in Secrets :
    LET i == findIndexByEmail(users, e)
        h == login(Store, e, p, now)
    IN
    (/\ i # 0
     /\ ~users[i].isLocked
     /\ users[i].loginAttempts \in {1, 2}
     /\ now - users[i].lastLoginAttempt >= LockoutDuration) =>
      /\ isAccountLocked(users, e, now).users[i].loginAttempts = 0
      /\ IF Correct(users, e, p)
         THEN h.res.status = 200
         ELSE /\ h.res.status = 401
              /\ h.res.remaining = 2
              /\ h.users[i].loginAttempts = 1
              /\ ~h.users[i].isLocked

\* C33 witness: a registered account with one failure on record, the lockout
\* duration past, receives a wrong password.
C33_Witness ==
  \E e \in Emails, p \in Secrets :
    /\ Registered(users, e) /\ ~Correct(users, e, p)
    /\ findByEmail(users, e)[1].loginAttempts = 1
    /\ now - findByEmail(users, e)[1].lastLoginAttempt >= LockoutDuration
    /\ login(Store, e, p, now).res.remaining = 2

\* C34 (as claimed): a registration for an email whose only record is the
\* placeholder of failed logins is answered 201 and leaves an account for the
\* email with the credential supplied.
C34_PlaceholderDoesNotBlockRegister ==
  \A e \in Emails, p \in Secrets, n \in Names :
    (/\ RecordsOf(users, e) # {}
     /\ \A i \in RecordsOf(users, e) : users[i].password = Null) =>
      LET h == register(Store, e, p, n, now) IN
      /\ h.res.status = 201
      /\ \E i \in RecordsOf(h.users, e) : h.users[i].password = Hash(p)

\* C35 (as claimed): over login, reset request and reset completion, a
\* placeholder record keeps password = null, holds no reset token, and no
\* login against its email is answered 200.
C35_PlaceholderStaysUnusable ==
  \A i \in 1..Len(users) :
    users[i].password = Null =>
      /\ users[i].passwordResetToken = Null
      /\ \A st \in Steps :
           st.op \in {"login", "forgot", "reset"} =>
             /\ st.h.users[i].password = Null
             /\ st.h.users[i].passwordResetToken = Null
             /\ (st.op = "login" /\ st.email = users[i].email) =>
                  st.h.res.status # 200

\* C36: a login, answered 200 or not, leaves passwordResetToken and
\* passwordResetExpires of every record as they were; a token that verified
\* before a successful login completes a reset after it at every time up to
\* its expiry.
C36_LoginKeepsResetToken ==
  \A e \in Emails, p \in Secrets :
    LET h == login(Store, e, p, now) IN
    /\ \A i \in 1..Len(users) :
         /\ h.users[i].passwordResetToken = users[i].passwordResetToken
         /\ h.users[i].passwordResetExpires = users[i].passwordResetExpires
    /\ h.res.status = 200 =>
         \A tok \in Tokens :
           verifyPasswordResetToken(users, e, tok, now) # <<>> =>
             \A t \in now..findByEmail(users, e)[1].passwordResetExpires,
                new \in Secrets :
               resetPassword(h, e, tok, new, t).res.status = 200

\* C36 witness: an account holding a token that still verifies logs in.
C36_Witness ==
  \E e \in Emails, p \in Secrets, tok \in Tokens :
    /\ verifyPasswordResetToken(users, e, tok, now) # <<>>
    /\ login(Store, e, p, now).res.status = 200
    /\ findByEmail(users, e)[1].loginAttempts > 0

\* the fields of a record that hold its security state
SecurityFields ==
  {"loginAttempts", "lastLoginAttempt", "isLocked",
   "passwordResetToken", "passwordResetExpires"}

\* C37: a successful changePassword or updateProfile leaves loginAttempts,
\* lastLoginAttempt, isLocked, passwordResetToken and passwordResetExpires of
\* every record as they were; after a successful changePassword an account
\* that was locked is still refused by the lock check and a token that
\* verified still verifies, at every later time.
C37_ProfileChangesKeepSecurityState ==
  /\ \A st \in Steps :
       (st.op \in {"changePassword", "updateProfile"} /\ st.h.res.status = 200) =>
         \A i \in 1..Len(users), f \in SecurityFields : st.h.users[i][f] = users[i][f]
  /\ \A id \in issued, c \in Secrets, p \in Secrets :
       LET h == changePassword(Store, id, c, p) IN
       h.res.status = 200 =>
         \A e \in Emails, t \in Later :
           /\ isAccountLocked(h.users, e, t).locked = isAccountLocked(users, e, t).locked
           /\ \A tok \in Tokens :
                (verifyPasswordResetToken(h.users, e, tok, t) # <<>>)
                  <=> (verifyPasswordResetToken(users, e, tok, t) # <<>>)

\* C37 witness: a locked account that holds a token which still verifies
\* changes its password with a bearer token signed earlier.
C37_Witness ==
  \E id \in issued, c \in Secrets, p \in Secrets, tok \in Tokens :
    LET i == findIndexById(users, id) IN
    /\ i # 0
    /\ users[i].isLocked
    /\ users[i].email \in Emails
    /\ verifyPasswordResetToken(users, users[i].email, tok, now) # <<>>
    /\ changePassword(Store, id, c, p).res.status = 200

\* C38: a reset request for a record that holds a token of another value
\* replaces the token and the expiry; the first token is then rejected by
\* verifyPasswordResetToken and by resetPassword at every later time; the
\* request changes no field other than passwordResetToken and
\* passwordResetExpires and no other record, and it is served for a locked
\* account.
C38_SecondRequestReplacesToken ==
  \A e \in Emails, tok \in Tokens :
    LET i == findIndexByEmail(users, e)
        h == requestPasswordReset(Store, e, tok, now)
    IN
    i # 0 =>
      /\ h.res.status = 200
      /\ h.res.resetToken = tok
      /\ h.users[i].passwordResetToken = tok
      /\ h.users[i].passwordResetExpires = now + ResetTTL
      /\ \A f \in DOMAIN users[i] \ {"passwordResetToken", "passwordResetExpires"} :
           h.users[i][f] = users[i][f]
      /\ \A k \in 1..Len(users) : k # i => h.users[k] = users[k]
      /\ Len(h.users) = Len(users)
      /\ \A first \in Tokens \ {tok} :
           users[i].passwordResetToken = first =>
             \A t \in Later, p \in Secrets :
               /\ verifyPasswordResetToken(h.users, e, first, t) = <<>>
               /\ resetPassword(h, e, first, p, t).res.status = 400
               /\ resetPassword(h, e, first, p, t).users = h.users

\* C38 witness: a locked account holding a token that still verifies asks for
\* another one.
C38_Witness ==
  \E e \in Emails, tok \in Tokens :
    /\ LockedAccount(users, e)
    /\ findByEmail(users, e)[1].passwordResetToken \in Tokens \ {tok}
    /\ now <= findByEmail(users, e)[1].passwordResetExpires
    /\ requestPasswordReset(Store, e, tok, now).res.resetToken = tok

\* C39: of the reset completions in flight that carry the same token for the
\* same email, at most one is answered 200, and once they are all answered
\* the credential of the record is the digest of the secret that one
\* supplied; one that passed the verification before the other wrote is
\* answered 400.
C39_OneResetPerToken ==
  \A q, r \in 1..Len(inflight) :
    (/\ inflight[q].op = "resetPassword" /\ inflight[r].op = "resetPassword"
     /\ q # r
     /\ inflight[q].email = inflight[r].email
     /\ inflight[q].token = inflight[r].token
     /\ inflight[q].pc = "done" /\ inflight[q].res.status = 200) =>
      /\ ~(inflight[r].pc = "done" /\ inflight[r].res.status = 200)
      /\ ~(inflight[r].pc = "resetPassword" /\ inflight[r].user # <<>>)
      /\ \A i \in 1..Len(users) :
           users[i].id = inflight[q].user[1].id =>
             users[i].password = Hash(inflight[q].password)

\* C39 witness: two reset completions with the same token both passed the
\* verification; one was answered 200, and the other, which supplied another
\* secret, was answered 400 when it came to write.
C39_Witness ==
  \E q, r \in 1..Len(inflight) :
    /\ inflight[q].op = "resetPassword" /\ inflight[r].op = "resetPassword"
    /\ inflight[q].email = inflight[r].email
    /\ inflight[q].token = inflight[r].token
    /\ inflight[q].password # inflight[r].password
    /\ inflight[q].pc = "done" /\ inflight[q].res.status = 200
    /\ inflight[r].pc = "done" /\ inflight[r].res.error = "Password reset failed"

====
